---- MODULE Spec2Model ----
(***************************************************************************)
(* slugpm: project slugs + archiving.                                      *)
(*                                                                         *)
(* Text is a sequence of one-character strings.  A path is a sequence of   *)
(* components, each component text; the root directory is the component    *)
(* ROOT in first position, "." is the component DOT.  One invocation of    *)
(* main is one action; the file operations it performs and the lines it    *)
(* prints are recorded, in order, in the invocation's record.              *)
(***************************************************************************)
EXTENDS Naturals, Sequences, FiniteSets

VARIABLES fs, last, runs, call

vars == <<fs, last, runs, call>>

\* ------------------------------------------------------------------ bounds

MaxTitleLen == 4
MaxTokens == 6
MaxPathLen == 3
MaxDepth == 3
MaxData == 3
MaxRuns == 2

\* -------------------------------------------------------------------- text

Lower == {"a", "b", "c", "e", "j", "m", "o", "p", "r", "t", "y", "z"}
Upper == {"A", "B", "E", "M", "P"}
Digit == {"0", "1", "2", "3", "5", "9"}
AsciiOther == {" ", "!", "-", "_", ".", "\n", "\r", "\t"}
\* Characters outside ASCII: three that have a transliteration and one that has none.
NonAscii == {"<e-acute>", "<AE>", "<bei>", "<pua>"}
\* A byte that is not valid UTF-8.
BadByte == "<0xff>"

ToLowerAscii(c) ==
    CASE c = "A" -> "a" [] c = "B" -> "b" [] c = "E" -> "e"
      [] c = "M" -> "m" [] c = "P" -> "p" [] OTHER -> c

Deunicode(c) ==
    CASE c = "<e-acute>" -> <<"e">>
      [] c = "<AE>" -> <<"A", "E">>
      [] c = "<bei>" -> <<"B", "e", "i", " ">>
      [] OTHER -> <<"-">>

RECURSIVE Flatten(_)
Flatten(ss) == IF ss = <<>> THEN <<>> ELSE Head(ss) \o Flatten(Tail(ss))

Last(s) == s[Len(s)]
Front(s) == SubSeq(s, 1, Len(s) - 1)
IsPrefix(p, q) == Len(p) <= Len(q) /\ SubSeq(q, 1, Len(p)) = p
IsSuffix(p, q) == Len(p) <= Len(q) /\ SubSeq(q, Len(q) - Len(p) + 1, Len(q)) = p

RECURSIVE SeqsUpTo(_, _)
SeqsUpTo(S, n) ==
    IF n = 0 THEN {<<>>}
    ELSE LET shorter == SeqsUpTo(S, n - 1)
         IN  shorter \cup {Append(s, x) : s \in shorter, x \in S}

\* --------------------------------------------------------------- slugify

\* The byte pushed through slug's push_char: st is <<slug so far, prev_is_dash>>.
PushCharNoCollapse(st, x) ==
    IF x \in Lower \cup Digit THEN <<Append(st[1], x), FALSE>>
    ELSE IF x \in Upper THEN <<Append(st[1], ToLowerAscii(x)), FALSE>>
    ELSE <<Append(st[1], "-"), TRUE>>

PushChar(st, x) ==
    IF x \in Lower \cup Digit THEN <<Append(st[1], x), FALSE>>
    ELSE IF x \in Upper THEN <<Append(st[1], ToLowerAscii(x)), FALSE>>
    ELSE IF ~st[2] THEN <<Append(st[1], "-"), TRUE>>
    ELSE st

RECURSIVE PushAll(_, _)
PushAll(st, xs) == IF xs = <<>> THEN st ELSE PushAll(PushChar(st, Head(xs)), Tail(xs))

RECURSIVE SlugLoop(_, _)
SlugLoop(st, s) ==
    IF s = <<>> THEN st
    ELSE LET c == Head(s)
             st1 == IF c \in NonAscii THEN PushAll(st, Deunicode(c)) ELSE PushChar(st, c)
         IN  SlugLoop(st1, Tail(s))

\* slug::slugify: prev_is_dash starts true, one trailing hyphen is popped.
slugify(s) ==
    LET out == SlugLoop(<<<<>>, TRUE>>, s)[1]
    IN  IF out # <<>> /\ Last(out) = "-" THEN Front(out) ELSE out

slugify_title(title) == slugify(title)

\* ------------------------------------------------------ the name pattern

IsDigit(c) == c \in Digit

\* ^(?P<date>\d{4}-\d{2}-\d{2})(-)? as its items after the anchor: a class of
\* characters and how many of them, at least and at most.
DatePattern ==
    <<[cls |-> "digit", min |-> 4, max |-> 4], [cls |-> "hyphen", min |-> 1, max |-> 1],
      [cls |-> "digit", min |-> 2, max |-> 2], [cls |-> "hyphen", min |-> 1, max |-> 1],
      [cls |-> "digit", min |-> 2, max |-> 2], [cls |-> "hyphen", min |-> 0, max |-> 1]>>

InClass(c, cls) == IF cls = "digit" THEN IsDigit(c) ELSE c = "-"

\* How many characters of the class follow position pos, up to max.
RECURSIVE Run(_, _, _, _)
Run(base, pos, cls, max) ==
    IF max = 0 \/ pos > Len(base) \/ ~InClass(base[pos], cls) THEN 0
    ELSE 1 + Run(base, pos + 1, cls, max - 1)

\* Where a match of the items that starts at pos ends (the position after it), 0 if
\* there is none.  Neighbouring items share no character, so greedy matching is exact.
RECURSIVE MatchFrom(_, _, _)
MatchFrom(base, pos, items) ==
    IF items = <<>> THEN pos
    ELSE LET it == Head(items)
             n == Run(base, pos, it.cls, it.max)
         IN  IF n < it.min THEN 0 ELSE MatchFrom(base, pos + n, Tail(items))

AnywhereOk(pos) == TRUE

\* The assertion ^ holds at the start of the text only.
AnchorOk(pos) == pos = 1

\* Regex::replace(base, ""): the leftmost match removed, the text unchanged without one.
StripDate(base) ==
    LET starts == {q \in 1..(Len(base) + 1) : AnchorOk(q) /\ MatchFrom(base, q, DatePattern) # 0}
    IN  IF starts = {} THEN base
        ELSE LET st == CHOOSE q \in starts : \A r \in starts : q <= r
                 end == MatchFrom(base, st, DatePattern)
             IN  SubSeq(base, 1, st - 1) \o SubSeq(base, end, Len(base))

\* ------------------------------------------------------------------ paths

ROOT == <<"/">>
DOT == <<".">>
DOTDOT == <<".", ".">>
ARCHIVE == <<"a", "r", "c", "h", "i", "v", "e">>
PROJECT == <<"p", "r", "o", "j", "e", "c", "t">>

IsAbsolute(p) == p # <<>> /\ p[1] = ROOT

\* Path::components: empty components (a trailing separator) are skipped.
Components(p) == SelectSeq(p, LAMBDA c : c # <<>>)

\* Path::parent: None for the root and for the empty path.
HasParent(p) == Components(p) # <<>> /\ Components(p) # <<ROOT>>
Parent(p) == Front(Components(p))

\* Path::file_name: the last component when it is a normal one.
HasFileName(p) ==
    /\ Components(p) # <<>>
    /\ Last(Components(p)) \notin {ROOT, DOT, DOTDOT}
FileName(p) == Last(Components(p))

\* Path::join with a single relative component; an empty one leaves a trailing separator.
Join(p, c) == Append(p, c)

RECURSIVE JoinWith(_, _)
JoinWith(ss, sep) ==
    IF ss = <<>> THEN <<>>
    ELSE IF Len(ss) = 1 THEN ss[1]
    ELSE ss[1] \o sep \o JoinWith(Tail(ss), sep)

\* Path::display
Display(p) ==
    IF IsAbsolute(p) THEN <<"/">> \o JoinWith(Tail(p), <<"/">>)
    ELSE JoinWith(p, <<"/">>)

archive_dir_for_file_sibling(parent) ==
    Join(IF HasParent(parent) THEN Parent(parent) ELSE parent, ARCHIVE)

archive_dir_for_file_pure(parent) == Join(parent, ARCHIVE)

archive_dir_for_dir_as_file(parent) == Join(parent, ARCHIVE)

archive_dir_for_dir_pure(parent) ==
    Join(IF HasParent(parent) THEN Parent(parent) ELSE parent, ARCHIVE)

\* ------------------------------------------------------- the file system

\* fs maps each existing absolute path to its node; the root always exists.
Dir == [kind |-> "dir", data |-> <<>>]
File(d) == [kind |-> "file", data |-> d]
Special == [kind |-> "special", data |-> <<>>]

Exists(f, p) == p \in DOMAIN f
IsDirIn(f, p) == Exists(f, p) /\ f[p].kind = "dir"
IsFileIn(f, p) == Exists(f, p) /\ f[p].kind = "file"

\* A path as the operating system resolves it against the working directory.
Resolve(cwd, p) ==
    LET c == SelectSeq(Components(p), LAMBDA x : x # DOT)
    IN  IF IsAbsolute(c) THEN c ELSE cwd \o c

Prefixes(p) == {SubSeq(p, 1, n) : n \in 1..Len(p)}
Children(f, d) == {q \in DOMAIN f : Len(q) > Len(d) /\ IsPrefix(d, q)}

\* The system call the environment refuses (permission denied, disk full, ...), if any:
\* fault.phase is "default" for the create command's calls and "command" for the
\* subcommand's, fault.op is the operation.
Phase(by) == IF by \in {"from_default_args", "create_project_dir"} THEN "default" ELSE "command"
Refused(in, by, op) == in.fault.phase = Phase(by) /\ in.fault.op = op
NoFault == [phase |-> "none", op |-> "none"]
Fault(phase, op) == [phase |-> phase, op |-> op]

\* The state of one running invocation.
Start(f, in) ==
    [fs |-> f, stdin |-> in.stdin, out |-> <<>>, log |-> <<>>, res |-> "run", err |-> "",
     canon |-> <<>>]

Event(by, op, a, b, data, ok) ==
    [by |-> by, op |-> op, a |-> a, b |-> b, data |-> data, ok |-> ok]

Logged(st, e) == [st EXCEPT !.log = Append(@, e)]
Bail(st, why) == [st EXCEPT !.res = "err", !.err = why]
Println(st, by, line) ==
    [st EXCEPT !.out = Append(@, line),
               !.log = Append(@, Event(by, "print", <<>>, <<>>, line, TRUE))]

\* fs::create_dir_all: an existing directory is fine, anything else in the way is an error.
CreateDirAllOk(f, abs, refused) ==
    /\ ~refused
    /\ \A q \in Prefixes(abs) : Exists(f, q) => f[q].kind = "dir"

CreateDirAllFs(f, abs) ==
    [q \in DOMAIN f \cup Prefixes(abs) |-> IF q \in DOMAIN f THEN f[q] ELSE Dir]

create_dir_all(st, by, path, in) ==
    LET abs == Resolve(in.cwd, path)
        ok == CreateDirAllOk(st.fs, abs, Refused(in, by, "mkdir"))
        st1 == Logged(st, Event(by, "mkdir", abs, <<>>, <<>>, ok))
    IN  IF ok THEN [st1 EXCEPT !.fs = CreateDirAllFs(st.fs, abs)]
        ELSE Bail(st1, "create_dir_all")

\* fs::rename with the semantics of rename(2).
RenameOk(f, from, to, refused) ==
    /\ ~refused
    /\ Exists(f, from)
    /\ IsDirIn(f, Front(to))
    /\ \/ from = to
       \/ /\ ~IsPrefix(from, to)
          /\ Exists(f, to) =>
               IF f[from].kind = "dir"
               THEN f[to].kind = "dir" /\ Children(f, to) = {}
               ELSE f[to].kind # "dir"

RenameFs(f, from, to) ==
    IF from = to THEN f
    ELSE LET moved == {q \in DOMAIN f : IsPrefix(from, q)}
             kept == (DOMAIN f \ moved) \ {to}
             Moved(q) == to \o SubSeq(q, Len(from) + 1, Len(q))
             dom == kept \cup {Moved(q) : q \in moved}
         IN  [q \in dom |->
                IF q \in kept THEN f[q]
                ELSE f[CHOOSE r \in moved : Moved(r) = q]]

rename(st, by, from, to, in) ==
    LET a == Resolve(in.cwd, from)
        b == Resolve(in.cwd, to)
        ok == RenameOk(st.fs, a, b, Refused(in, by, "rename"))
        st1 == Logged(st, Event(by, "rename", a, b, <<>>, ok))
    IN  IF ok THEN [st1 EXCEPT !.fs = RenameFs(st.fs, a, b)]
        ELSE Bail(st1, "moving")

\* OpenOptions::new().create(true).append(true).open(path)
OpenAppendOk(f, abs, refused) ==
    /\ ~refused
    /\ IsDirIn(f, Front(abs))
    /\ Exists(f, abs) => f[abs].kind # "dir"

OpenAppendFs(f, abs) ==
    IF Exists(f, abs) THEN f
    ELSE [q \in DOMAIN f \cup {abs} |-> IF q = abs THEN File(<<>>) ELSE f[q]]

open_append(st, by, path, in) ==
    LET abs == Resolve(in.cwd, path)
        ok == OpenAppendOk(st.fs, abs, Refused(in, by, "open"))
        st1 == Logged(st, Event(by, "open", abs, <<>>, <<>>, ok))
    IN  IF ok THEN [st1 EXCEPT !.fs = OpenAppendFs(st.fs, abs)]
        ELSE Bail(st1, "opening")

\* Write::write_all on a file opened for append: the bytes go to the tail.
WriteAllFs(f, abs, buf) ==
    IF f[abs].kind = "file" THEN [f EXCEPT ![abs].data = @ \o buf] ELSE f

write_all(st, by, path, buf, in) ==
    LET abs == Resolve(in.cwd, path)
        ok == buf = <<>> \/ ~Refused(in, by, "write")
        st1 == Logged(st, Event(by, "write", abs, <<>>, buf, ok))
    IN  IF ok THEN [st1 EXCEPT !.fs = WriteAllFs(st.fs, abs, buf)]
        ELSE Bail(st1, "write_all")

\* io::stdin().read_to_end: everything left on standard input.
read_to_end(st, by, in) ==
    LET ok == ~Refused(in, by, "read")
        st1 == Logged(st, Event(by, "read", <<>>, <<>>, st.stdin, ok))
    IN  IF ok THEN [st1 EXCEPT !.stdin = <<>>] ELSE Bail(st1, "read_to_end")

\* io::stdin().read_to_string: as read_to_end, and the bytes must be UTF-8.
IsUtf8(buf) == \A i \in 1..Len(buf) : buf[i] # BadByte

read_to_string(st, by, in) ==
    LET ok == ~Refused(in, by, "read") /\ IsUtf8(st.stdin)
        st1 == Logged(st, Event(by, "read", <<>>, <<>>, st.stdin, ok))
    IN  IF ok THEN [st1 EXCEPT !.stdin = <<>>] ELSE Bail(st1, "read_to_string")

\* ------------------------------------------------------------ the program

Whitespace == {" ", "\t", "\n", "\r"}

\* buf.lines().next().unwrap_or(""): up to the first line feed, without a final carriage return.
FirstLine(buf) ==
    LET nl == {i \in 1..Len(buf) : buf[i] = "\n"}
        end == IF nl = {} THEN Len(buf) ELSE (CHOOSE i \in nl : \A j \in nl : i <= j) - 1
        line == SubSeq(buf, 1, end)
    IN  IF nl # {} /\ line # <<>> /\ Last(line) = "\r" THEN Front(line) ELSE line

\* str::trim
Trim(s) ==
    LET keep == {i \in 1..Len(s) : s[i] \notin Whitespace}
    IN  IF keep = {} THEN <<>>
        ELSE SubSeq(s, CHOOSE i \in keep : \A j \in keep : i <= j,
                       CHOOSE i \in keep : \A j \in keep : i >= j)

\* args.join(" ")
JoinWords(args) == JoinWith(args, <<" ">>)

\* Sequencing: the state a step leaves is computed once and handed to what follows.
AndThen(st, Rest(_)) == CHOOSE r \in {Rest(x) : x \in {st}} : TRUE

\* The ? operator: an error returns at once.
Try(st, Rest(_)) == AndThen(st, LAMBDA x : IF x.res = "err" THEN x ELSE Rest(x))

create_project_dir(st, title, in) ==
    LET slug == slugify(title)
        dir == Join(<<PROJECT>>, slug)
    IN  Try(create_dir_all(st, "create_project_dir", dir, in),
            LAMBDA st1 : Println(st1, "create_project_dir", Display(dir)))

\* Cmd::from_default_args: runs the create command; its return value is a placeholder.
from_default_args(st, in) ==
    IF in.tty
    THEN IF in.title = <<>> THEN Bail(st, "missing <title>")
         ELSE create_project_dir(st, JoinWords(in.title), in)
    ELSE LET first_line == Trim(FirstLine(st.stdin))
         IN  Try(read_to_string(st, "from_default_args", in),
                 LAMBDA st1 : IF first_line = <<>> THEN Bail(st1, "STDIN is empty")
                              ELSE create_project_dir(st1, first_line, in))

Placeholder == [kind |-> "name", dirname |-> <<DOT>>, target |-> <<>>, dash |-> FALSE]

archive_move_file_with(st, file, in) ==
    IF ~HasParent(file) THEN Bail(st, "panic")
    ELSE
    LET arch_dir == archive_dir_for_file_pure(Parent(file))
        dest == Join(arch_dir, FileName(file))
    IN  Try(create_dir_all(st, "archive_move_file", arch_dir, in),
            LAMBDA st1 :
                IF ~HasFileName(file) THEN Bail(st1, "panic")
                ELSE Try(rename(st1, "archive_move_file", file, dest, in),
                         LAMBDA st2 : Println(st2, "archive_move_file", Display(dest))))

archive_move_dir_into_itself(st, dir, in) ==
    IF ~HasParent(dir) THEN Bail(st, "panic")
    ELSE
    LET arch_dir == archive_dir_for_file_pure(dir)
        dest == Join(arch_dir, FileName(dir))
    IN  Try(create_dir_all(st, "archive_move_dir", arch_dir, in),
            LAMBDA st1 :
                Try(rename(st1, "archive_move_dir", dir, dest, in),
                    LAMBDA st2 : Println(st2, "archive_move_dir", Display(dest))))

archive_move_dir_with(st, dir, in) ==
    IF ~HasParent(dir) THEN Bail(st, "panic")
    ELSE
    LET arch_dir == archive_dir_for_dir_pure(Parent(dir))
        dest == Join(arch_dir, FileName(dir))
    IN  Try(create_dir_all(st, "archive_move_dir", arch_dir, in),
            LAMBDA st1 :
                IF ~HasFileName(dir) THEN Bail(st1, "panic")
                ELSE Try(rename(st1, "archive_move_dir", dir, dest, in),
                         LAMBDA st2 : Println(st2, "archive_move_dir", Display(dest))))

archive_append_stdin_with(st, file, in) ==
    IF ~HasParent(file) THEN Bail(st, "panic")
    ELSE
    LET arch_dir == archive_dir_for_file_pure(Parent(file))
        dest == Join(arch_dir, FileName(file))
    IN  Try(create_dir_all(st, "archive_append_stdin", arch_dir, in),
            LAMBDA st1 :
                IF ~HasFileName(file) THEN Bail(st1, "panic")
                ELSE Try(open_append(st1, "archive_append_stdin", dest, in),
                     LAMBDA st2 :
                         Try(read_to_end(st2, "archive_append_stdin", in),
                         LAMBDA st3 :
                             Try(write_all(st3, "archive_append_stdin", dest, st2.stdin, in),
                             LAMBDA st4 :
                                 Println(st4, "archive_append_stdin", Display(dest))))))

\* fs::canonicalize: the absolute path of something that exists.
canonicalize(st, target, in) ==
    LET abs == Resolve(in.cwd, target)
    IN  IF Exists(st.fs, abs) THEN [st EXCEPT !.canon = abs]
        ELSE Bail(st, "resolving path")

ArchiveArm(st, cmd, in) ==
    Try(canonicalize(st, cmd.target, in),
        LAMBDA st1 :
            IF cmd.dash THEN archive_append_stdin_with(st1, st1.canon, in)
            ELSE IF IsFileIn(st1.fs, st1.canon) THEN archive_move_file_with(st1, st1.canon, in)
            ELSE IF IsDirIn(st1.fs, st1.canon) THEN archive_move_dir_with(st1, st1.canon, in)
            ELSE Bail(st1, "neither file nor directory"))

\* OsStr::to_str
IsUtf8Name(c) == \A i \in 1..Len(c) : c[i] # BadByte

NameArm(st, cmd, in) ==
    IF ~(HasFileName(cmd.dirname) /\ IsUtf8Name(FileName(cmd.dirname)))
    THEN Bail(st, "invalid directory name")
    ELSE Println(st, "name", StripDate(FileName(cmd.dirname)))

\* cli.command.unwrap_or(Cmd::from_default_args(cli.title)?): the argument of unwrap_or
\* is evaluated before unwrap_or is called, whatever cli.command holds.
Dispatch(st, in) ==
    LET cmd == IF in.command.kind = "none" THEN Placeholder ELSE in.command
    IN  Try(from_default_args(st, in),
            LAMBDA st1 : IF cmd.kind = "archive" THEN ArchiveArm(st1, cmd, in)
                         ELSE NameArm(st1, cmd, in))

main(f, in) ==
    AndThen(Dispatch(Start(f, in), in),
            LAMBDA st : IF st.res = "run" THEN [st EXCEPT !.res = "ok"] ELSE st)

\* ------------------------------------------------------- the environment

W == <<"w">>
F == <<"f">>
D == <<"d">>
G == <<"g">>
S == <<"s">>
Missing == <<"n", "o", "n", "e">>
Dated == <<"2", "0", "2", "5", "-", "0", "9", "-", "1", "3", "-", "M", "y">>

\* The working directory every invocation is started in.
Cwd == <<ROOT, W>>

\* A directory with a regular file, a non-empty directory and a special file in it.
InitFs(c) ==
    LET dom == {<<ROOT>>, <<ROOT, W>>, <<ROOT, W, F>>, <<ROOT, W, D>>, <<ROOT, W, D, G>>,
                <<ROOT, W, S>>}
    IN  [q \in dom |->
            IF q = <<ROOT, W, F>> THEN File(c)
            ELSE IF q = <<ROOT, W, D, G>> THEN File(<<>>)
            ELSE IF q = <<ROOT, W, S>> THEN Special
            ELSE Dir]

Titles == {<<>>, << <<"A">> >>, << <<"A">>, <<"b">> >>, << <<"!">> >>}
Stdins == {<<>>, <<"A">>, <<" ", "\n", "A">>, <<"b", "\r", "\n", "z">>, <<BadByte>>}
Typed == {<<>>, <<"z">>}

Targets(f) ==
    {q \in DOMAIN f : Len(q) <= MaxDepth}
      \cup {<<ROOT, W, Missing>>, <<PROJECT, <<"a">> >>, <<DOT, F>>}

Dirnames == {<<DOT>>, <<ROOT>>, <<ROOT, W, Dated>>, <<W>>, <<W, <<BadByte>> >>, <<DOTDOT>>}

NoCommand == [kind |-> "none", dirname |-> <<>>, target |-> <<>>, dash |-> FALSE]
ArchiveCmd(t, dash) == [kind |-> "archive", dirname |-> <<>>, target |-> t, dash |-> dash]
NameCmd(d) == [kind |-> "name", dirname |-> d, target |-> <<>>, dash |-> FALSE]

\* What the process is started with: the parsed command line, whether standard input
\* is a terminal, what standard input holds, and the operation the system refuses.
Input(command, title, tty, stdin, fault) ==
    [command |-> command, title |-> title, tty |-> tty, stdin |-> stdin, cwd |-> Cwd,
     fault |-> fault]

Idle(f) ==
    [in |-> Input(NoCommand, <<>>, TRUE, <<>>, NoFault), pre |-> f, out |-> <<>>,
     log |-> <<>>, res |-> "idle", err |-> "", canon |-> <<>>]

WithinBounds(f) ==
    \A q \in DOMAIN f : Len(q) <= MaxDepth + 1 /\ Len(f[q].data) <= MaxData

\* One invocation of main, from start to exit.
Invoke(in) ==
    /\ last.res = "idle"
    /\ runs < MaxRuns
    /\ IsDirIn(fs, Cwd)
    /\ \E st \in {main(fs, in)} :
        /\ WithinBounds(st.fs)
        /\ fs' = st.fs
        /\ last' = [in |-> [in EXCEPT !.fault = NoFault], pre |-> fs, out |-> st.out,
                    log |-> st.log, res |-> st.res, err |-> st.err, canon |-> st.canon]
        /\ runs' = runs + 1
        /\ UNCHANGED call

\* The environments of the create command: the title words count on a terminal only.
CreateEnvs ==
    {Input(NoCommand, t, TRUE, <<>>, f) : t \in Titles, f \in {NoFault, Fault("default", "mkdir")}}
      \cup {Input(NoCommand, <<>>, FALSE, i, f) :
              i \in Stdins, f \in {NoFault, Fault("default", "mkdir"), Fault("default", "read")}}

\* The environments of a subcommand: a terminal with or without title words after
\* the subcommand's own, or a pipe with or without text in it.
CommandEnvs(typed, faults) ==
    {Input(NoCommand, t, TRUE, i, f) :
        t \in {<<>>, << <<"A">> >>}, i \in typed, f \in faults}
      \cup {Input(NoCommand, <<>>, FALSE, i, f) : i \in {<<>>, <<"A">>}, f \in faults}

RunCreate ==
    \E e \in CreateEnvs : Invoke(e)

RunArchiveMove ==
    \E t \in Targets(fs) :
        \E e \in CommandEnvs({<<>>}, {NoFault, Fault("command", "mkdir"), Fault("command", "rename")}) :
            Invoke([e EXCEPT !.command = ArchiveCmd(t, FALSE)])

RunArchiveAppend ==
    \E t \in Targets(fs) :
        \E e \in CommandEnvs(Typed, {NoFault, Fault("command", "mkdir"), Fault("command", "open"),
                                     Fault("command", "read"), Fault("command", "write")}) :
            Invoke([e EXCEPT !.command = ArchiveCmd(t, TRUE)])

RunName ==
    \E e \in CommandEnvs({<<>>}, {NoFault}), d \in Dirnames :
        Invoke([e EXCEPT !.command = NameCmd(d)])

\* The process has exited; the next invocation is a new process.
Exit ==
    /\ last.res # "idle"
    /\ last' = Idle(fs)
    /\ UNCHANGED <<fs, runs, call>>

NoCall == [fn |-> "none", arg |-> <<>>, ret |-> <<>>, again |-> <<>>, res |-> ""]

Init ==
    /\ fs = InitFs(<<"c">>)
    /\ last = Idle(fs)
    /\ runs = 0
    /\ call = NoCall

Next == RunCreate \/ RunArchiveMove \/ RunArchiveAppend \/ RunName \/ Exit

Spec == Init /\ [][Next]_vars

\* ------------------------------------------- slugify_title on every title

SlugAlphabet == {"a", "M", "1", " ", "-", "<bei>", "<pua>"}
MyProjectTitle == <<"M", "y", " ", "P", "r", "o", "j", "e", "c", "t", "!">>
SlugTitles == (SeqsUpTo(SlugAlphabet, MaxTitleLen) \ {<<>>}) \cup {MyProjectTitle}

InitSlug ==
    /\ fs = InitFs(<<>>)
    /\ last = Idle(fs)
    /\ runs = 0
    /\ \E t \in SlugTitles : call = [NoCall EXCEPT !.fn = "slugify_title", !.arg = t]

ApplySlug ==
    /\ call.fn = "slugify_title"
    /\ call' = [call EXCEPT !.fn = "slugify_title_done",
                            !.ret = slugify_title(call.arg),
                            !.again = slugify_title(slugify_title(call.arg))]
    /\ UNCHANGED <<fs, last, runs>>

NextSlug == ApplySlug

SpecSlug == InitSlug /\ [][NextSlug]_vars

\* ------------------------------------------ the name command on every name

NameTokens == {<<"2", "0", "2", "5">>, <<"-", "0", "9">>, <<"-">>, <<"M">>, <<"1">>}
BaseNames == {Flatten(ts) : ts \in SeqsUpTo(NameTokens, MaxTokens)} \ {<<>>}

InitName ==
    /\ fs = InitFs(<<>>)
    /\ last = Idle(fs)
    /\ runs = 0
    /\ \E b \in BaseNames : call = [NoCall EXCEPT !.fn = "name", !.arg = b]

ApplyName ==
    /\ call.fn = "name"
    /\ LET in == Input(NameCmd(<<ROOT, W, call.arg>>), <<>>, TRUE, <<>>, NoFault)
       IN  \E st \in {NameArm(Start(fs, in), in.command, in)} :
               call' = [call EXCEPT !.fn = "name_done", !.ret = st.out, !.res = st.res]
    /\ UNCHANGED <<fs, last, runs>>

NextName == ApplyName

SpecName == InitName /\ [][NextName]_vars

\* ------------------------------- archiving a directory, wherever it lies

DirNames == {ARCHIVE, PROJECT, W, D}
DirPaths == {<<ROOT>> \o q : q \in SeqsUpTo(DirNames, MaxPathLen)}

\* The directory and the directories above it, and nothing else.
DirTree(d) == [q \in Prefixes(d) |-> Dir]

InitDir ==
    /\ \E d \in DirPaths : fs = DirTree(d) /\ call = [NoCall EXCEPT !.fn = "archive", !.arg = d]
    /\ last = Idle(fs)
    /\ runs = 0

MoveDir ==
    /\ last.res = "idle"
    /\ runs = 0
    /\ LET in == Input(ArchiveCmd(call.arg, FALSE), <<>>, TRUE, <<>>, NoFault)
       IN  \E st0 \in {ArchiveArm(Start(fs, in), in.command, in)} :
               /\ fs' = st0.fs
               /\ last' = [in |-> in, pre |-> fs, out |-> st0.out, log |-> st0.log,
                           res |-> IF st0.res = "run" THEN "ok" ELSE st0.res,
                           err |-> st0.err, canon |-> st0.canon]
    /\ runs' = 1
    /\ UNCHANGED call

NextDir == MoveDir

SpecDir == InitDir /\ [][NextDir]_vars

\* ------------------------------------------------- reading an invocation

Ran == last.res # "idle"
Kind == last.in.command.kind
Dash == last.in.command.dash
IsArchiveRun == Ran /\ Kind = "archive"

Idx == 1..Len(last.log)
EventsBy(bys) == {i \in Idx : last.log[i].by \in bys}
EventsOf(bys, op) == {i \in Idx : last.log[i].by \in bys /\ last.log[i].op = op}

DefaultFns == {"from_default_args", "create_project_dir"}
MoveFns == {"archive_move_file", "archive_move_dir"}
AppendFns == {"archive_append_stdin"}
ArchiveFns == MoveFns \cup AppendFns

\* What the target of the archive command was when the process started.
TargetAtStart == Resolve(last.in.cwd, last.in.command.target)
KindAtStart ==
    IF Exists(last.pre, TargetAtStart) THEN last.pre[TargetAtStart].kind ELSE "missing"

\* The operations that acted during the invocation.
Performed ==
    {k \in {"create-project", "archive-move", "archive-append", "name"} :
        \/ k = "create-project" /\ EventsBy(DefaultFns) # {}
        \/ k = "archive-move" /\ EventsBy(MoveFns) # {}
        \/ k = "archive-append" /\ EventsBy(AppendFns) # {}
        \/ k = "name" /\ EventsBy({"name"}) # {}}

\* ---------------------------------------------------------------- claims

\* C1: each successful `archive <file> -` leaves the destination file holding what it
\* held before (nothing if it did not exist) followed by the standard input of that
\* invocation, so n invocations leave C, b1, ..., bn in order.
C1_AppendsStdinInOrder ==
    [][(/\ last.res = "idle"
        /\ last'.res = "ok"
        /\ last'.in.command.kind = "archive"
        /\ last'.in.command.dash)
       => LET dest == Join(archive_dir_for_file_pure(Parent(last'.canon)), FileName(last'.canon))
              before == IF IsFileIn(fs, dest) THEN fs[dest].data ELSE <<>>
          IN  /\ IsFileIn(fs', dest)
              /\ fs'[dest].data = before \o last'.in.stdin]_vars

\* C2: with a subcommand the title is ignored: nothing of the create command runs, the
\* invocation does not fail for want of a title, and every invocation performs one
\* operation only.
C2_SubcommandIgnoresTitle ==
    Ran =>
        /\ Kind # "none" =>
              /\ EventsBy(DefaultFns) = {}
              /\ last.err \notin {"missing <title>", "STDIN is empty"}
        /\ Cardinality(Performed) <= 1
        /\ last.res = "ok" => Cardinality(Performed) = 1

\* The canonical target of a move, and where the claims say it goes.
Target == last.canon
IsMoveOf(kind) ==
    /\ IsArchiveRun /\ ~Dash
    /\ Target # <<>>
    /\ Exists(last.pre, Target) /\ last.pre[Target].kind = kind

\* C3: a regular file P/name is renamed to P/archive/name, the rename is attempted once,
\* only after P/archive was created successfully, and a rename that fails is an error.
C3_FileMovesToSiblingArchive ==
    IsMoveOf("file") =>
        LET P == SubSeq(Target, 1, Len(Target) - 1)
            name == Target[Len(Target)]
            arch == P \o <<ARCHIVE>>
            dest == arch \o <<name>>
            renames == {i \in Idx : last.log[i].op = "rename"}
        IN  /\ EventsBy({"archive_move_dir"} \cup AppendFns) = {}
            /\ Cardinality(renames) <= 1
            /\ \A i \in renames :
                  /\ last.log[i].by = "archive_move_file"
                  /\ last.log[i].a = Target /\ last.log[i].b = dest
                  /\ \E j \in 1..(i - 1) :
                        /\ last.log[j].by = "archive_move_file" /\ last.log[j].op = "mkdir"
                        /\ last.log[j].a = arch /\ last.log[j].ok
                  /\ IsDirIn(fs, arch)
                  /\ ~last.log[i].ok => last.res = "err" /\ IsFileIn(fs, Target)
            /\ (\E i \in EventsOf({"archive_move_file"}, "mkdir") : ~last.log[i].ok)
                  => renames = {} /\ last.res = "err"
            /\ last.res = "ok" =>
                  /\ renames # {}
                  /\ ~Exists(fs, Target)
                  /\ fs[dest] = last.pre[Target]
                  /\ Last(last.out) = Display(dest)

C3_Witness ==
    /\ IsMoveOf("file")
    /\ last.res = "ok"
    /\ Target = <<ROOT, W, F>>
    /\ IsFileIn(fs, <<ROOT, W, ARCHIVE, F>>)

\* C4: a directory D = P/n is renamed to archiveDirForDir(P)/n, the archive directory
\* being P's parent joined with `archive`, or P/archive when P has no parent.
C4_DirMovesToParentLevelArchive ==
    /\ archive_dir_for_dir_pure(<<ROOT, <<"f", "o", "o">>, <<"b", "a", "r">> >>)
          = <<ROOT, <<"f", "o", "o">>, ARCHIVE>>
    /\ archive_dir_for_dir_pure(<<ROOT>>) = <<ROOT, ARCHIVE>>
    /\ IsMoveOf("dir") /\ Len(Target) >= 2 =>
        LET n == Target[Len(Target)]
            arch == IF Len(Target) >= 3
                    THEN SubSeq(Target, 1, Len(Target) - 2) \o <<ARCHIVE>>
                    ELSE <<ROOT, ARCHIVE>>
            dest == arch \o <<n>>
            renames == {i \in Idx : last.log[i].op = "rename"}
        IN  /\ EventsBy({"archive_move_file"} \cup AppendFns) = {}
            /\ \A i \in EventsOf({"archive_move_dir"}, "mkdir") : last.log[i].a = arch
            /\ \A i \in renames :
                  /\ last.log[i].by = "archive_move_dir"
                  /\ last.log[i].a = Target /\ last.log[i].b = dest
            /\ last.res = "ok" =>
                  /\ renames # {}
                  /\ IsDirIn(fs, dest)
                  /\ dest # Target => ~Exists(fs, Target)
                  /\ Last(last.out) = Display(dest)

C4_Witness ==
    /\ IsMoveOf("dir")
    /\ last.res = "ok"
    /\ Target = <<ROOT, W, PROJECT, <<"a">> >>
    /\ IsDirIn(fs, <<ROOT, W, ARCHIVE, <<"a">> >>)
    /\ ~Exists(fs, Target)

\* The events that end an operation: the directory creation of the create command,
\* the rename of a move, the write of an append.
IsTerminal(e) ==
    \/ e.by = "create_project_dir" /\ e.op = "mkdir"
    \/ e.by \in MoveFns /\ e.op = "rename"
    \/ e.by \in AppendFns /\ e.op = "write"

\* The printed line names the absolute path: as it is, or relative to the working
\* directory, with or without a trailing separator.
Denotes(line, abs) ==
    LET l == IF Len(line) > 1 /\ Last(line) = "/" THEN Front(line) ELSE line
    IN  \/ l = Display(abs)
        \/ /\ IsPrefix(last.in.cwd, abs)
           /\ l = Display(SubSeq(abs, Len(last.in.cwd) + 1, Len(abs)))

\* C5: an invocation that succeeds prints exactly one line, the destination of the
\* operation it performed, after that operation's terminal action succeeded; an
\* invocation that fails prints nothing.
C5_PrintsDestinationOnSuccessOnly ==
    Ran /\ Kind \in {"none", "archive"} =>
        /\ last.res = "ok" =>
              /\ Len(last.out) = 1
              /\ \E i \in Idx : \E j \in 1..(i - 1) :
                    /\ last.log[i].op = "print" /\ last.log[j].ok
                    /\ IsTerminal(last.log[j]) /\ last.log[j].by = last.log[i].by
                    /\ Denotes(last.log[i].data,
                               IF last.log[j].op = "rename" THEN last.log[j].b ELSE last.log[j].a)
        /\ last.res = "err" => last.out = <<>>

\* C6: an archive invocation whose target is missing, or neither a regular file nor a
\* directory, fails and creates, renames and writes nothing; one that succeeds had a
\* regular file or a directory for a target.
C6_BadTargetIsAnError ==
    IsArchiveRun =>
        /\ KindAtStart \notin {"file", "dir"} =>
              /\ last.res = "err"
              /\ EventsBy(ArchiveFns) = {}
              /\ fs = last.pre
        /\ last.res = "ok" => KindAtStart \in {"file", "dir"}

\* C7: the create command takes its title from the words on a terminal and from the
\* first line of a pipe, fails without creating anything exactly when there is no
\* title, and otherwise creates project/<slug> and prints it.
C7_CreateFailsOnlyWithoutTitle ==
    (Ran /\ Kind = "none" /\ \A i \in Idx : last.log[i].ok) =>
        LET title == IF last.in.tty THEN JoinWith(last.in.title, <<" ">>)
                     ELSE Trim(FirstLine(last.in.stdin))
            dir == <<PROJECT, slugify_title(title)>>
        IN  /\ last.res = "err" <=> title = <<>>
            /\ title = <<>> => fs = last.pre /\ last.out = <<>>
            /\ title # <<>> =>
                  /\ IsDirIn(fs, Resolve(last.in.cwd, dir))
                  /\ last.out = <<Display(dir)>>

\* C8: `name` prints the base name without a leading YYYY-MM-DD or YYYY-MM-DD-, and
\* unchanged when it has no such prefix; what it prints is a suffix of the base name.
C8_NameStripsLeadingDate ==
    /\ StripDate(Dated) = <<"M", "y">>
    /\ StripDate(<<"M", "y", "P", "r", "o", "j", "e", "c", "t">>)
          = <<"M", "y", "P", "r", "o", "j", "e", "c", "t">>
    /\ call.fn = "name_done" =>
        LET B == call.arg
            dated == /\ Len(B) >= 10
                     /\ \A i \in {1, 2, 3, 4, 6, 7, 9, 10} : B[i] \in Digit
                     /\ B[5] = "-" /\ B[8] = "-"
            cut == IF ~dated THEN 0 ELSE IF Len(B) >= 11 /\ B[11] = "-" THEN 11 ELSE 10
            expected == [i \in 1..(Len(B) - cut) |-> B[i + cut]]
        IN  /\ call.res = "run"
            /\ call.ret = <<expected>>
            /\ IsSuffix(call.ret[1], B)
            /\ ~dated => call.ret[1] = B

C8_Witness ==
    /\ call.fn = "name_done"
    /\ call.arg = <<"2", "0", "2", "5", "-", "0", "9", "-", "0", "9", "-", "M">>
    /\ call.ret = << <<"M">> >>

\* The maximal runs of letters and digits of a text, in lower case.
RECURSIVE AlnumRuns(_, _)
AlnumRuns(x, cur) ==
    IF x = <<>> THEN (IF cur = <<>> THEN <<>> ELSE <<cur>>)
    ELSE IF Head(x) \in Lower \cup Upper \cup Digit
         THEN AlnumRuns(Tail(x), Append(cur, ToLowerAscii(Head(x))))
         ELSE (IF cur = <<>> THEN <<>> ELSE <<cur>>) \o AlnumRuns(Tail(x), <<>>)

Transliterated(x) ==
    Flatten([i \in 1..Len(x) |-> IF x[i] \in NonAscii THEN Deunicode(x[i]) ELSE <<x[i]>>])

\* C9: slugify_title is idempotent and its output is made of [a-z0-9-] only, each run
\* of other characters collapsed to one hyphen, none at either end.
C9_SlugIdempotentAndClean ==
    /\ slugify_title(MyProjectTitle) = <<"m", "y", "-", "p", "r", "o", "j", "e", "c", "t">>
    /\ call.fn = "slugify_title_done" =>
        LET r == call.ret
        IN  /\ call.again = r
            /\ \A i \in 1..Len(r) : r[i] \in Lower \cup Digit \cup {"-"}
            /\ r # <<>> => r[1] # "-" /\ r[Len(r)] # "-"
            /\ \A i \in 1..(Len(r) - 1) : ~(r[i] = "-" /\ r[i + 1] = "-")
            /\ r = JoinWith(AlnumRuns(Transliterated(call.arg), <<>>), <<"-">>)

C9_Witness ==
    /\ call.fn = "slugify_title_done"
    /\ call.arg = <<"M", " ", "-", "a">>
    /\ call.ret = <<"m", "-", "a">>

\* C10 as claimed: for every directory target D, the archive directory and the rename
\* destination of move-directory are neither D nor inside D.
C10_NeverNestsInItself ==
    IsMoveOf("dir") /\ Len(Target) >= 2 =>
        /\ \A i \in EventsOf({"archive_move_dir"}, "mkdir") : ~IsPrefix(Target, last.log[i].a)
        /\ \A i \in EventsOf({"archive_move_dir"}, "rename") : ~IsPrefix(Target, last.log[i].b)

\* C10 as amended: the same for every directory target D other than /archive whose
\* parent is not named `archive`.
C10_NeverNestsUnlessArchiveAbove ==
    (/\ IsMoveOf("dir") /\ Len(Target) >= 2
     /\ Target # <<ROOT, ARCHIVE>>
     /\ Target[Len(Target) - 1] # ARCHIVE) =>
        /\ EventsOf({"archive_move_dir"}, "mkdir") # {}
        /\ \A i \in EventsOf({"archive_move_dir"}, "mkdir") : ~IsPrefix(Target, last.log[i].a)
        /\ \A i \in EventsOf({"archive_move_dir"}, "rename") : ~IsPrefix(Target, last.log[i].b)

C10_Witness ==
    /\ IsMoveOf("dir")
    /\ Target = <<ROOT, W>>
    /\ last.res = "ok"
    /\ IsDirIn(fs, <<ROOT, ARCHIVE, W>>)
    /\ ~Exists(fs, Target)

====
